---- MODULE Spec2Model ----
(***************************************************************************)
(* Binary YES/NO prediction market priced by a constant-product market     *)
(* maker (programs/prediction_program/src/lib.rs).  One market account,    *)
(* its vault token account, one position account per user, the users'      *)
(* collateral token accounts and the cluster clock.  Every instruction is  *)
(* one atomic step: it either passes every check and commits every         *)
(* mutation, or returns an error and leaves the accounts untouched.        *)
(***************************************************************************)
EXTENDS Integers, FiniteSets, Sequences, TLC

VARIABLES market, positions, vault, wallets, now, trades, created_liquidity

vars == <<market, positions, vault, wallets, now, trades, created_liquidity>>

(***************************************************************************)
(* Bounds of the model.                                                    *)
(***************************************************************************)
\* Largest value of the 64-bit working unit, scaled down so that the
\* 128-bit intermediate (twice the width) stays inside the checker's integers.
U64_MAX == 32767
\* Collateral each user's token account starts with.
InitialBalance == 700
\* The clock runs from 0 to MaxTime.
MaxTime == 1
\* Number of buys and sells a run commits (failed ones are not counted).
MaxTrades == 3

U128_MAX == (U64_MAX + 1) * (U64_MAX + 1) - 1

Users == {"alice", "bob"}
\* Pubkey::default(): the owner field of a zeroed position account.
DefaultPubkey == "default"

\* Instruction arguments the environment may submit.
Liquidities == {0, 1, 300, 400, U64_MAX}
EndTimes == {1}
OutcomeIndexes == {0, 1, 2}
CollateralAmounts == {0, 3, 250}
\* A seller offers nothing, one share, all they hold, or one share too many.
ShareAmounts(held) == {0, 1, held, held + 1}
MinOuts == {0, 150}

(***************************************************************************)
(* Config                                                                  *)
(***************************************************************************)
FEE_BPS == 50
BPS_DENOM == 10000

\* MarketStatus
Open == 0
Resolved == 1
Cancelled == 2

(***************************************************************************)
(* Fees                                                                    *)
(***************************************************************************)
\* A fee that is never charged on the way in.
apply_fee_in_free(gross_in) == [err |-> "Ok", net |-> gross_in, fee |-> 0]

apply_fee_in(gross_in) ==
  IF gross_in * FEE_BPS > U64_MAX
  THEN [err |-> "MathOverflow", net |-> 0, fee |-> 0]
  ELSE LET fee == (gross_in * FEE_BPS) \div BPS_DENOM
       IN  [err |-> "Ok", net |-> gross_in - fee, fee |-> fee]

\* A fee that is never withheld on the way out.
apply_fee_out_free(gross_out) == [err |-> "Ok", net |-> gross_out, fee |-> 0]

apply_fee_out(gross_out) ==
  IF gross_out * FEE_BPS > U64_MAX
  THEN [err |-> "MathOverflow", net |-> 0, fee |-> 0]
  ELSE LET fee == (gross_out * FEE_BPS) \div BPS_DENOM
       IN  [err |-> "Ok", net |-> gross_out - fee, fee |-> fee]

(***************************************************************************)
(* CPMM math (swap-style)                                                  *)
(***************************************************************************)
CpmmErr(e) == [err |-> e, new_yes |-> 0, new_no |-> 0, out |-> 0]

\* A YES buy that pays the shares out without taking them from the YES reserve.
cpmm_buy_yes_reserve_kept(yes_pool, no_pool, net_in) ==
  IF ~(yes_pool > 0 /\ no_pool > 0) THEN CpmmErr("InvalidLiquidity")
  ELSE LET y_new == no_pool + net_in
           out == yes_pool - (yes_pool * no_pool) \div y_new
       IN  IF y_new > U64_MAX THEN CpmmErr("MathOverflow")
           ELSE [err |-> "Ok", new_yes |-> yes_pool, new_no |-> y_new, out |-> out]

\* Buying YES: add net_in to NO reserve, take YES out.
cpmm_buy_yes(yes_pool, no_pool, net_in) ==
  IF ~(yes_pool > 0 /\ no_pool > 0) THEN CpmmErr("InvalidLiquidity")
  ELSE LET x == yes_pool
           y == no_pool
           dy == net_in
           k == x * y
           y_new == y + dy
           x_new == k \div y_new
           out == x - x_new
       IN  IF k > U128_MAX \/ y_new > U128_MAX \/ out < 0
              \/ out > U64_MAX \/ x_new > U64_MAX \/ y_new > U64_MAX
           THEN CpmmErr("MathOverflow")
           ELSE [err |-> "Ok", new_yes |-> x_new, new_no |-> y_new, out |-> out]

\* Buying NO: add net_in to YES reserve, take NO out.
cpmm_buy_no(yes_pool, no_pool, net_in) ==
  IF ~(yes_pool > 0 /\ no_pool > 0) THEN CpmmErr("InvalidLiquidity")
  ELSE LET x == no_pool
           y == yes_pool
           dy == net_in
           k == x * y
           y_new == y + dy
           x_new == k \div y_new
           out == x - x_new
       IN  IF k > U128_MAX \/ y_new > U128_MAX \/ out < 0
              \/ out > U64_MAX \/ x_new > U64_MAX \/ y_new > U64_MAX
           THEN CpmmErr("MathOverflow")
           ELSE [err |-> "Ok", new_yes |-> y_new, new_no |-> x_new, out |-> out]

\* Selling YES: add shares_in to YES reserve, take NO out.
cpmm_sell_yes(yes_pool, no_pool, shares_in) ==
  IF ~(yes_pool > 0 /\ no_pool > 0) THEN CpmmErr("InvalidLiquidity")
  ELSE LET x == yes_pool
           y == no_pool
           dx == shares_in
           k == x * y
           x_new == x + dx
           y_new == k \div x_new
           out == y - y_new
       IN  IF k > U128_MAX \/ x_new > U128_MAX \/ out < 0
              \/ out > U64_MAX \/ x_new > U64_MAX \/ y_new > U64_MAX
           THEN CpmmErr("MathOverflow")
           ELSE [err |-> "Ok", new_yes |-> x_new, new_no |-> y_new, out |-> out]

\* Selling NO: add shares_in to NO reserve, take YES out.
cpmm_sell_no(yes_pool, no_pool, shares_in) ==
  IF ~(yes_pool > 0 /\ no_pool > 0) THEN CpmmErr("InvalidLiquidity")
  ELSE LET x == no_pool
           y == yes_pool
           dx == shares_in
           k == x * y
           x_new == x + dx
           y_new == k \div x_new
           out == y - y_new
       IN  IF k > U128_MAX \/ x_new > U128_MAX \/ out < 0
              \/ out > U64_MAX \/ x_new > U64_MAX \/ y_new > U64_MAX
           THEN CpmmErr("MathOverflow")
           ELSE [err |-> "Ok", new_yes |-> y_new, new_no |-> x_new, out |-> out]

(***************************************************************************)
(* Accounts                                                                *)
(***************************************************************************)
\* The market account before create_market_cpmm (not yet allocated).
NoMarket ==
  [initialized |-> FALSE, authority |-> DefaultPubkey, end_time |-> 0,
   status |-> Open, winning_outcome |-> 0,
   yes_pool |-> 0, no_pool |-> 0,
   total_yes_shares |-> 0, total_no_shares |-> 0,
   resolved_vault_balance |-> 0, resolved_total_winning_shares |-> 0]

\* A position account before its first buy (not yet allocated, all zero).
NoPosition ==
  [initialized |-> FALSE, owner |-> DefaultPubkey,
   yes_shares |-> 0, no_shares |-> 0, claimed |-> FALSE]

Init ==
  /\ market = NoMarket
  /\ positions = [u \in Users |-> NoPosition]
  /\ vault = 0
  /\ wallets = [u \in Users |-> InitialBalance]
  /\ now = 0
  /\ trades = 0
  /\ created_liquidity = 0

(***************************************************************************)
(* Instruction handlers, as functions of the accounts they are handed.     *)
(* Each returns the error code and the accounts as they are committed when *)
(* the code is "Ok"; on any other code the runtime discards every change.  *)
(***************************************************************************)
Rejected(e, m, p, vlt, wal) ==
  [err |-> e, market |-> m, position |-> p, vault |-> vlt, wallet |-> wal, out |-> 0]

\* token::transfer moves amount out of a token account holding balance.
TransferFails(balance, amount) == amount > balance

\* A deposit that backs only one of the two symmetric reserves.
backing_of_one_reserve(initial_liquidity) == initial_liquidity

\* Deposit 2*L collateral into vault as backing.
backing_of(initial_liquidity) == initial_liquidity * 2

create_market_cpmm_handler(m, vlt, wal, authority, end_time, initial_liquidity) ==
  IF m.initialized THEN Rejected("AccountAlreadyInUse", m, NoPosition, vlt, wal)
  ELSE IF ~(initial_liquidity > 0) THEN Rejected("InvalidLiquidity", m, NoPosition, vlt, wal)
  ELSE IF backing_of(initial_liquidity) > U64_MAX
       THEN Rejected("MathOverflow", m, NoPosition, vlt, wal)
  ELSE LET backing == backing_of(initial_liquidity) IN
       IF TransferFails(wal, backing) THEN Rejected("InsufficientFunds", m, NoPosition, vlt, wal)
       ELSE [err |-> "Ok",
             market |-> [initialized |-> TRUE,
                         authority |-> authority,
                         end_time |-> end_time,
                         status |-> Open,
                         winning_outcome |-> -1,
                         yes_pool |-> initial_liquidity,
                         no_pool |-> initial_liquidity,
                         total_yes_shares |-> 0,
                         total_no_shares |-> 0,
                         resolved_vault_balance |-> 0,
                         resolved_total_winning_shares |-> 0],
             position |-> NoPosition,
             vault |-> vlt + backing,
             wallet |-> wal - backing,
             out |-> 0]

\* A status guard that lets every market trade.
market_open_always(m) == TRUE

\* require!(market.status == MarketStatus::Open as u8, InvalidMarketStatus)
market_open(m) == m.status = Open

\* A deadline that still admits a trade at end_time itself.
market_expired_after_end(t, end_time) == t > end_time

\* require!(clock.unix_timestamp < market.end_time, MarketExpired)
market_expired(t, end_time) == ~(t < end_time)

\* A slippage guard that accepts any output.
meets_minimum_always(out, min_out) == TRUE

\* require!(shares_out >= min_shares_out) / require!(net_out >= min_collateral_out)
meets_minimum(out, min_out) == out >= min_out

\* Add shares_out to the position and to the market total of the outcome bought.
credit_shares(m, q, outcome_index, shares_out) ==
  IF outcome_index = 0
  THEN IF q.yes_shares + shares_out > U64_MAX \/ m.total_yes_shares + shares_out > U64_MAX
       THEN [err |-> "MathOverflow", market |-> m, position |-> q]
       ELSE [err |-> "Ok",
             market |-> [m EXCEPT !.total_yes_shares = @ + shares_out],
             position |-> [q EXCEPT !.yes_shares = @ + shares_out]]
  ELSE IF q.no_shares + shares_out > U64_MAX \/ m.total_no_shares + shares_out > U64_MAX
       THEN [err |-> "MathOverflow", market |-> m, position |-> q]
       ELSE [err |-> "Ok",
             market |-> [m EXCEPT !.total_no_shares = @ + shares_out],
             position |-> [q EXCEPT !.no_shares = @ + shares_out]]

buy_shares_handler(m, p, vlt, wal, t, user, outcome_index, max_collateral_in, min_shares_out) ==
  IF ~m.initialized THEN Rejected("AccountNotInitialized", m, p, vlt, wal)
  ELSE IF ~market_open(m) THEN Rejected("InvalidMarketStatus", m, p, vlt, wal)
  ELSE IF market_expired(t, m.end_time) THEN Rejected("MarketExpired", m, p, vlt, wal)
  ELSE IF ~(outcome_index <= 1) THEN Rejected("InvalidOutcome", m, p, vlt, wal)
  ELSE IF ~(max_collateral_in > 0) THEN Rejected("ZeroAmount", m, p, vlt, wal)
  ELSE LET f == apply_fee_in(max_collateral_in) IN
  IF f.err # "Ok" THEN Rejected(f.err, m, p, vlt, wal)
  ELSE LET c == IF outcome_index = 0
                THEN cpmm_buy_yes(m.yes_pool, m.no_pool, f.net)
                ELSE cpmm_buy_no(m.yes_pool, m.no_pool, f.net)
           shares_out == c.out
       IN
  IF c.err # "Ok" THEN Rejected(c.err, m, p, vlt, wal)
  ELSE IF ~meets_minimum(shares_out, min_shares_out)
       THEN Rejected("SlippageExceeded", m, p, vlt, wal)
  ELSE IF ~(shares_out > 0) THEN Rejected("ZeroSharesOut", m, p, vlt, wal)
  ELSE IF TransferFails(wal, max_collateral_in) THEN Rejected("InsufficientFunds", m, p, vlt, wal)
  ELSE IF vlt + max_collateral_in > U64_MAX THEN Rejected("TokenOverflow", m, p, vlt, wal)
  ELSE LET \* Fresh position, or the caller's existing one
           q == IF p.owner = DefaultPubkey
                THEN [initialized |-> TRUE, owner |-> user,
                      yes_shares |-> 0, no_shares |-> 0, claimed |-> FALSE]
                ELSE p
       IN
  IF q.owner # user THEN Rejected("PositionOwnerMismatch", m, p, vlt, wal)
  ELSE LET cr == credit_shares([m EXCEPT !.yes_pool = c.new_yes, !.no_pool = c.new_no],
                               q, outcome_index, shares_out)
       IN
  IF cr.err # "Ok" THEN Rejected(cr.err, m, p, vlt, wal)
  ELSE [err |-> "Ok",
        market |-> cr.market,
        position |-> cr.position,
        vault |-> vlt + max_collateral_in,
        wallet |-> wal - max_collateral_in,
        out |-> shares_out]

\* A burn that forgets the market total.
burn_shares_position_only(m, p, outcome_index, shares_in) ==
  IF (IF outcome_index = 0 THEN p.yes_shares ELSE p.no_shares) < shares_in
  THEN [err |-> "MathOverflow", market |-> m, position |-> p]
  ELSE [err |-> "Ok",
        market |-> m,
        position |-> IF outcome_index = 0
                     THEN [p EXCEPT !.yes_shares = @ - shares_in]
                     ELSE [p EXCEPT !.no_shares = @ - shares_in]]

\* Burn shares_in from the position and from the market total of the outcome sold.
burn_shares(m, p, outcome_index, shares_in) ==
  IF (IF outcome_index = 0 THEN p.yes_shares ELSE p.no_shares) < shares_in
     \/ (IF outcome_index = 0 THEN m.total_yes_shares ELSE m.total_no_shares) < shares_in
  THEN [err |-> "MathOverflow", market |-> m, position |-> p]
  ELSE IF outcome_index = 0
  THEN [err |-> "Ok",
        market |-> [m EXCEPT !.total_yes_shares = @ - shares_in],
        position |-> [p EXCEPT !.yes_shares = @ - shares_in]]
  ELSE [err |-> "Ok",
        market |-> [m EXCEPT !.total_no_shares = @ - shares_in],
        position |-> [p EXCEPT !.no_shares = @ - shares_in]]

\* A guard that never sees the claimed flag.
position_claimed_ignored(p) == FALSE

\* require!(!position.claimed, AlreadyClaimed)
position_claimed(p) == p.claimed

\* A balance check that lets any amount through.
holds_shares_unchecked(p, outcome_index, shares_in) == TRUE

\* Ensure user has shares
holds_shares(p, outcome_index, shares_in) ==
  (IF outcome_index = 0 THEN p.yes_shares ELSE p.no_shares) >= shares_in

sell_shares_handler(m, p, vlt, wal, t, user, outcome_index, shares_in, min_collateral_out) ==
  IF ~m.initialized \/ ~p.initialized THEN Rejected("AccountNotInitialized", m, p, vlt, wal)
  ELSE IF ~market_open(m) THEN Rejected("InvalidMarketStatus", m, p, vlt, wal)
  ELSE IF market_expired(t, m.end_time) THEN Rejected("MarketExpired", m, p, vlt, wal)
  ELSE IF ~(outcome_index <= 1) THEN Rejected("InvalidOutcome", m, p, vlt, wal)
  ELSE IF ~(shares_in > 0) THEN Rejected("ZeroAmount", m, p, vlt, wal)
  ELSE IF p.owner # user THEN Rejected("PositionOwnerMismatch", m, p, vlt, wal)
  ELSE IF position_claimed(p) THEN Rejected("AlreadyClaimed", m, p, vlt, wal)
  ELSE IF ~holds_shares(p, outcome_index, shares_in)
       THEN Rejected("InsufficientShares", m, p, vlt, wal)
  ELSE LET c == IF outcome_index = 0
                THEN cpmm_sell_yes(m.yes_pool, m.no_pool, shares_in)
                ELSE cpmm_sell_no(m.yes_pool, m.no_pool, shares_in)
           gross_out == c.out
       IN
  IF c.err # "Ok" THEN Rejected(c.err, m, p, vlt, wal)
  ELSE IF ~(gross_out > 0) THEN Rejected("ZeroAmount", m, p, vlt, wal)
  ELSE LET f == apply_fee_out(gross_out) IN
  IF f.err # "Ok" THEN Rejected(f.err, m, p, vlt, wal)
  ELSE LET net_out == f.net
           fee_kept == gross_out - net_out
           \* Adjust reserve to account for fee retention
           yes_pool == IF outcome_index = 1 THEN c.new_yes + fee_kept ELSE c.new_yes
           no_pool == IF outcome_index = 0 THEN c.new_no + fee_kept ELSE c.new_no
       IN
  IF ~meets_minimum(net_out, min_collateral_out)
  THEN Rejected("SlippageExceeded", m, p, vlt, wal)
  ELSE IF yes_pool > U64_MAX \/ no_pool > U64_MAX THEN Rejected("MathOverflow", m, p, vlt, wal)
  ELSE LET bn == burn_shares([m EXCEPT !.yes_pool = yes_pool, !.no_pool = no_pool],
                             p, outcome_index, shares_in)
       IN
  IF bn.err # "Ok" THEN Rejected(bn.err, m, p, vlt, wal)
  ELSE IF TransferFails(vlt, net_out) THEN Rejected("InsufficientFunds", m, p, vlt, wal)
  ELSE IF wal + net_out > U64_MAX THEN Rejected("TokenOverflow", m, p, vlt, wal)
  ELSE [err |-> "Ok",
        market |-> bn.market,
        position |-> bn.position,
        vault |-> vlt - net_out,
        wallet |-> wal + net_out,
        out |-> net_out]

\* An authority check that accepts every signer.
is_authority_anyone(m, authority) == TRUE

\* require!(ctx.accounts.authority.key() == market.authority, Unauthorized)
is_authority(m, authority) == authority = m.authority

\* The total of the outcome that lost.
total_losing_shares_of(m, winning_outcome) ==
  IF winning_outcome = 0 THEN m.total_no_shares ELSE m.total_yes_shares

\* Total outstanding shares of the winning outcome.
total_winning_shares_of(m, winning_outcome) ==
  IF winning_outcome = 0 THEN m.total_yes_shares ELSE m.total_no_shares

\* A resolve that does not look at the market status.
resolve_market_handler_any_status(m, vlt, authority, winning_outcome) ==
  IF ~m.initialized THEN Rejected("AccountNotInitialized", m, NoPosition, vlt, 0)
  ELSE IF ~is_authority(m, authority) THEN Rejected("Unauthorized", m, NoPosition, vlt, 0)
  ELSE IF ~(winning_outcome <= 1) THEN Rejected("InvalidOutcome", m, NoPosition, vlt, 0)
  ELSE LET total_winning_shares == total_winning_shares_of(m, winning_outcome) IN
  IF ~(total_winning_shares > 0) THEN Rejected("NoWinnings", m, NoPosition, vlt, 0)
  ELSE [err |-> "Ok",
        market |-> [m EXCEPT !.resolved_vault_balance = vlt,
                             !.resolved_total_winning_shares = total_winning_shares,
                             !.status = Resolved,
                             !.winning_outcome = winning_outcome],
        position |-> NoPosition, vault |-> vlt, wallet |-> 0, out |-> 0]

\* A resolve that does not require any winning share to exist.
resolve_market_handler_no_winners(m, vlt, authority, winning_outcome) ==
  IF ~m.initialized THEN Rejected("AccountNotInitialized", m, NoPosition, vlt, 0)
  ELSE IF ~is_authority(m, authority) THEN Rejected("Unauthorized", m, NoPosition, vlt, 0)
  ELSE IF m.status # Open THEN Rejected("InvalidMarketStatus", m, NoPosition, vlt, 0)
  ELSE IF ~(winning_outcome <= 1) THEN Rejected("InvalidOutcome", m, NoPosition, vlt, 0)
  ELSE [err |-> "Ok",
        market |-> [m EXCEPT !.resolved_vault_balance = vlt,
                             !.resolved_total_winning_shares =
                                total_winning_shares_of(m, winning_outcome),
                             !.status = Resolved,
                             !.winning_outcome = winning_outcome],
        position |-> NoPosition, vault |-> vlt, wallet |-> 0, out |-> 0]

resolve_market_handler(m, vlt, authority, winning_outcome) ==
  IF ~m.initialized THEN Rejected("AccountNotInitialized", m, NoPosition, vlt, 0)
  ELSE IF ~is_authority(m, authority) THEN Rejected("Unauthorized", m, NoPosition, vlt, 0)
  ELSE IF m.status # Open THEN Rejected("InvalidMarketStatus", m, NoPosition, vlt, 0)
  ELSE IF ~(winning_outcome <= 1) THEN Rejected("InvalidOutcome", m, NoPosition, vlt, 0)
  ELSE LET total_winning_shares == total_winning_shares_of(m, winning_outcome) IN
  IF ~(total_winning_shares > 0) THEN Rejected("NoWinnings", m, NoPosition, vlt, 0)
  ELSE [err |-> "Ok",
        market |-> [m EXCEPT !.resolved_vault_balance = vlt,
                             !.resolved_total_winning_shares = total_winning_shares,
                             !.status = Resolved,
                             !.winning_outcome = winning_outcome],
        position |-> NoPosition, vault |-> vlt, wallet |-> 0, out |-> 0]

\* A payout that divides by one share too many.
payout_u128_short(vault_balance, user_winning_shares, total_winning_shares) ==
  (vault_balance * user_winning_shares) \div (total_winning_shares + 1)

\* A payout that rounds up instead of down.
payout_u128_rounded_up(vault_balance, user_winning_shares, total_winning_shares) ==
  (vault_balance * user_winning_shares + total_winning_shares - 1) \div total_winning_shares

\* A claim priced against what the vault holds now.
claim_vault_balance_live(m, vlt) == vlt

\* CLASSIC PRO-RATA: use snapshots
claim_vault_balance(m, vlt) == m.resolved_vault_balance

\* payout = resolved_vault_balance * user_winning_shares / resolved_total_winning_shares
payout_u128(vault_balance, user_winning_shares, total_winning_shares) ==
  (vault_balance * user_winning_shares) \div total_winning_shares

claim_winnings_v2_handler(m, p, vlt, wal, user) ==
  IF ~m.initialized \/ ~p.initialized THEN Rejected("AccountNotInitialized", m, p, vlt, wal)
  ELSE IF m.status # Resolved THEN Rejected("MarketNotResolved", m, p, vlt, wal)
  ELSE LET winning == m.winning_outcome IN
  IF ~(winning >= 0) THEN Rejected("InvalidWinningOutcome", m, p, vlt, wal)
  ELSE IF position_claimed(p) THEN Rejected("AlreadyClaimed", m, p, vlt, wal)
  ELSE IF p.owner # user THEN Rejected("PositionOwnerMismatch", m, p, vlt, wal)
  ELSE LET total_winning_shares == m.resolved_total_winning_shares
           vault_balance == claim_vault_balance(m, vlt)
       IN
  IF ~(total_winning_shares > 0) THEN Rejected("NoWinnings", m, p, vlt, wal)
  ELSE IF ~(vault_balance > 0) THEN Rejected("NoWinnings", m, p, vlt, wal)
  ELSE IF winning > 1 THEN Rejected("InvalidWinningOutcome", m, p, vlt, wal)
  ELSE LET user_winning_shares == IF winning = 0 THEN p.yes_shares ELSE p.no_shares IN
  IF ~(user_winning_shares > 0) THEN Rejected("NoWinnings", m, p, vlt, wal)
  ELSE LET payout == payout_u128(vault_balance, user_winning_shares, total_winning_shares) IN
  IF vault_balance * user_winning_shares > U128_MAX \/ payout > U64_MAX
  THEN Rejected("MathOverflow", m, p, vlt, wal)
  ELSE IF ~(payout > 0) THEN Rejected("NoWinnings", m, p, vlt, wal)
  ELSE IF TransferFails(vlt, payout) THEN Rejected("InsufficientFunds", m, p, vlt, wal)
  ELSE IF wal + payout > U64_MAX THEN Rejected("TokenOverflow", m, p, vlt, wal)
  ELSE [err |-> "Ok",
        market |-> m,
        position |-> [p EXCEPT !.claimed = TRUE],
        vault |-> vlt - payout,
        wallet |-> wal + payout,
        out |-> payout]

(***************************************************************************)
(* Instructions                                                            *)
(***************************************************************************)
\* Commit r when it is "Ok"; otherwise the transaction is rolled back whole.
Commit(op, user, r, touchesPosition) ==
  /\ IF r.err = "Ok" /\ op \in {"buy_shares", "sell_shares"}
     THEN trades < MaxTrades /\ trades' = trades + 1
     ELSE UNCHANGED trades
  /\ IF r.err = "Ok"
     THEN /\ market' = r.market
          /\ vault' = r.vault
          /\ positions' = IF touchesPosition
                          THEN [positions EXCEPT ![user] = r.position]
                          ELSE positions
          /\ wallets' = IF op = "resolve_market"
                        THEN wallets
                        ELSE [wallets EXCEPT ![user] = r.wallet]
     ELSE UNCHANGED <<market, vault, positions, wallets>>
  \* History: the initial_liquidity the market was created with (MarketV2 keeps
  \* no copy of it; both reserves start at that value).
  /\ IF r.err = "Ok" /\ op = "create_market_cpmm"
     THEN created_liquidity' = r.market.yes_pool
     ELSE UNCHANGED created_liquidity
  /\ UNCHANGED now

create_market_cpmm(authority, end_time, initial_liquidity) ==
  Commit("create_market_cpmm", authority,
         create_market_cpmm_handler(market, vault, wallets[authority],
                                    authority, end_time, initial_liquidity),
         FALSE)

buy_shares(user, outcome_index, max_collateral_in, min_shares_out) ==
  Commit("buy_shares", user,
         buy_shares_handler(market, positions[user], vault, wallets[user], now,
                            user, outcome_index, max_collateral_in, min_shares_out),
         TRUE)

sell_shares(user, outcome_index, shares_in, min_collateral_out) ==
  Commit("sell_shares", user,
         sell_shares_handler(market, positions[user], vault, wallets[user], now,
                             user, outcome_index, shares_in, min_collateral_out),
         TRUE)

resolve_market(authority, winning_outcome) ==
  Commit("resolve_market", authority,
         resolve_market_handler(market, vault, authority, winning_outcome),
         FALSE)

claim_winnings_v2(user) ==
  Commit("claim_winnings_v2", user,
         claim_winnings_v2_handler(market, positions[user], vault, wallets[user], user),
         TRUE)

\* Clock::get(): the cluster clock only moves forward.
Tick ==
  /\ now < MaxTime
  /\ now' = now + 1
  /\ UNCHANGED <<market, positions, vault, wallets, trades, created_liquidity>>

CreateStep == \E a \in Users, e \in EndTimes, l \in Liquidities : create_market_cpmm(a, e, l)
BuyStep == \E u \in Users, o \in OutcomeIndexes, g \in CollateralAmounts, mn \in MinOuts :
             buy_shares(u, o, g, mn)
SellStep == \E u \in Users, o \in OutcomeIndexes, mn \in MinOuts :
              \E s \in ShareAmounts(IF o = 0 THEN positions[u].yes_shares
                                              ELSE positions[u].no_shares) :
                sell_shares(u, o, s, mn)
ResolveStep == \E a \in Users, w \in OutcomeIndexes : resolve_market(a, w)
ClaimStep == \E u \in Users : claim_winnings_v2(u)

Next == CreateStep \/ BuyStep \/ SellStep \/ ResolveStep \/ ClaimStep \/ Tick

Spec == Init /\ [][Next]_vars

(***************************************************************************)
(* Properties                                                              *)
(***************************************************************************)
IsOpen == market.initialized /\ market.status = Open
IsResolved == market.initialized /\ market.status = Resolved
TradingOutcomes == {0, 1}

RECURSIVE SumOver(_, _)
SumOver(f, S) ==
  IF S = {} THEN 0
  ELSE LET x == CHOOSE x \in S : TRUE IN f[x] + SumOver(f, S \ {x})

\* The shares user u holds of the recorded winning outcome.
WinningShares(u) ==
  IF market.winning_outcome = 0 THEN positions[u].yes_shares ELSE positions[u].no_shares

\* floor(resolved_vault_balance * shares / resolved_total_winning_shares)
FloorShare(u) ==
  (market.resolved_vault_balance * WinningShares(u))
    \div market.resolved_total_winning_shares

ClaimNow(u) == claim_winnings_v2_handler(market, positions[u], vault, wallets[u], u)

\* C1: once the market is resolved, the payouts already transferred out of the
\* vault are exactly the floor shares of the positions that claimed, all floor
\* shares together are at most resolved_vault_balance, and no claim is ever
\* refused by the token transfer for lack of vault funds.
C1_ClaimsWithinSnapshot ==
  IsResolved =>
    /\ market.resolved_vault_balance - vault
         = SumOver([u \in Users |-> IF positions[u].claimed THEN FloorShare(u) ELSE 0], Users)
    /\ SumOver([u \in Users |-> FloorShare(u)], Users) <= market.resolved_vault_balance
    /\ vault >= 0
    /\ \A u \in Users : ClaimNow(u).err # "InsufficientFunds"

\* Every user has claimed and was paid; the vault keeps the remainder.
C1_Witness ==
  /\ IsResolved
  /\ \A u \in Users : positions[u].claimed /\ FloorShare(u) > 0
  /\ vault < market.resolved_vault_balance

\* C2: claimed only goes from false to true, and in every state in which a
\* position is claimed a claim on it returns AlreadyClaimed and moves nothing.
C2_ClaimedOnce ==
  /\ [](\A u \in Users :
          positions[u].claimed =>
            /\ ClaimNow(u).err = "AlreadyClaimed"
            /\ ClaimNow(u).vault = vault
            /\ ClaimNow(u).wallet = wallets[u])
  /\ [][\A u \in Users : positions[u].claimed => positions'[u].claimed]_vars

\* One position is claimed and the clock has moved on since.
C2_Witness ==
  /\ IsResolved
  /\ positions["alice"].claimed
  /\ now = MaxTime
  /\ wallets["alice"] > InitialBalance

\* C3: a committed buy or sell never lowers the reserve product.
C3_ProductNeverDecreases ==
  [][(market.initialized /\ trades' # trades) =>
        market'.yes_pool * market'.no_pool >= market.yes_pool * market.no_pool]_vars

\* C4: buying gross_in of an outcome and selling the shares received straight
\* back returns strictly less than gross_in.
C4_RoundTripLoses ==
  \A u \in Users, o \in TradingOutcomes, g \in CollateralAmounts :
    LET b == buy_shares_handler(market, positions[u], vault, wallets[u], now, u, o, g, 0)
        s == sell_shares_handler(b.market, b.position, b.vault, b.wallet, now, u, o, b.out, 0)
    IN  (IsOpen /\ g > 0 /\ b.err = "Ok" /\ s.err = "Ok") => s.out < g

\* C5: both reserves are positive while the market is Open.
C5_PoolsPositiveWhileOpen ==
  IsOpen => market.yes_pool > 0 /\ market.no_pool > 0

\* C6: the market's share totals equal the sums over its positions.
C6_TotalsMatchPositions ==
  /\ market.total_yes_shares = SumOver([u \in Users |-> positions[u].yes_shares], Users)
  /\ market.total_no_shares = SumOver([u \in Users |-> positions[u].no_shares], Users)

\* Both users hold shares after buys and a sell.
C6_Witness ==
  /\ trades = MaxTrades
  /\ positions["alice"].yes_shares > 0
  /\ positions["bob"].yes_shares > positions["alice"].yes_shares
  /\ positions["bob"].no_shares > 0
  /\ market.total_yes_shares > positions["bob"].yes_shares

\* C7: the status never is Cancelled; it changes only from Open to Resolved,
\* in a resolve_market step; once Resolved, status and winning_outcome stay,
\* and a resolve by the authority returns InvalidMarketStatus.
C7_StatusStep ==
  market.initialized =>
    /\ market'.initialized
    /\ market'.status # market.status =>
         /\ market.status = Open
         /\ market'.status = Resolved
         /\ \E a \in Users, w \in OutcomeIndexes : resolve_market(a, w)
    /\ market.status = Resolved =>
         /\ market'.status = Resolved
         /\ market'.winning_outcome = market.winning_outcome

C7_OpenToResolvedOnly ==
  /\ [](market.status # Cancelled)
  /\ [](IsResolved =>
          \A w \in OutcomeIndexes :
            resolve_market_handler(market, vault, market.authority, w).err
              = "InvalidMarketStatus")
  /\ [][C7_StatusStep]_vars

\* Resolved to NO, and a claim has been paid since.
C7_Witness ==
  /\ IsResolved
  /\ market.winning_outcome = 1
  /\ \E u \in Users : positions[u].claimed

\* C8: the snapshot is zero while Open, is written only by the step that
\* resolves the market, to the vault balance and the winning outcome's total
\* at that moment, and never changes afterwards.
C8_SnapshotStep ==
  market.initialized =>
    /\ (market.status = Open /\ market'.status = Resolved) =>
         /\ market'.resolved_vault_balance = vault
         /\ vault' = vault
         /\ market'.resolved_total_winning_shares =
              (IF market'.winning_outcome = 0
               THEN market.total_yes_shares ELSE market.total_no_shares)
    /\ (market'.resolved_vault_balance # market.resolved_vault_balance
        \/ market'.resolved_total_winning_shares # market.resolved_total_winning_shares) =>
         (market.status = Open /\ market'.status = Resolved)

C8_SnapshotWrittenOnce ==
  /\ [](IsOpen => /\ market.resolved_vault_balance = 0
                  /\ market.resolved_total_winning_shares = 0)
  /\ [][C8_SnapshotStep]_vars

\* Resolved to YES with differing totals, and the vault has paid a claim.
C8_Witness ==
  /\ IsResolved
  /\ market.winning_outcome = 0
  /\ market.total_yes_shares # market.total_no_shares
  /\ market.total_no_shares > 0
  /\ vault < market.resolved_vault_balance
  /\ market.resolved_total_winning_shares = market.total_yes_shares

\* C9: on a resolved market no step changes what any user's claim pays, and
\* the step in which a position becomes claimed pays its owner exactly
\* floor(resolved_vault_balance * shares / resolved_total_winning_shares).
C9_ClaimStep ==
  IsResolved =>
    \A u \in Users :
      /\ FloorShare(u)' = FloorShare(u)
      /\ (~positions[u].claimed /\ positions'[u].claimed) =>
           /\ wallets'[u] - wallets[u] = FloorShare(u)
           /\ vault - vault' = FloorShare(u)

C9_ClaimsOrderIndependent == [][C9_ClaimStep]_vars

\* Two holders of winning shares, one of whom has claimed and one has not.
C9_Witness ==
  /\ IsResolved
  /\ \A u \in Users : WinningShares(u) > 0
  /\ positions["bob"].claimed
  /\ ~positions["alice"].claimed

\* The market create_market_cpmm writes for authority a, end_time e, liquidity l.
FreshMarket(a, e, l) ==
  [initialized |-> TRUE, authority |-> a, end_time |-> e,
   status |-> Open, winning_outcome |-> -1,
   yes_pool |-> l, no_pool |-> l,
   total_yes_shares |-> 0, total_no_shares |-> 0,
   resolved_vault_balance |-> 0, resolved_total_winning_shares |-> 0]

\* C10: before the market exists, create_market_cpmm with L = 0 returns
\* InvalidLiquidity and creates nothing; with L > 0 and 2L representable it is
\* refused only when the authority cannot fund 2L, and otherwise yields an Open
\* market with no winner, both reserves L, no shares, a zero snapshot and a
\* vault of exactly 2L.  Every step that creates the market has this effect.
C10_CreateNow ==
  ~market.initialized =>
    \A a \in Users, e \in EndTimes, l \in Liquidities :
      LET r == create_market_cpmm_handler(market, vault, wallets[a], a, e, l) IN
        /\ l = 0 => (r.err = "InvalidLiquidity" /\ r.market = market /\ r.vault = vault)
        /\ (l > 0 /\ 2 * l <= U64_MAX) =>
             /\ r.err = (IF wallets[a] < 2 * l THEN "InsufficientFunds" ELSE "Ok")
             /\ r.err = "Ok" =>
                  /\ r.market = FreshMarket(a, e, l)
                  /\ r.vault = 2 * l
                  /\ r.wallet = wallets[a] - 2 * l

C10_CreateStep ==
  (~market.initialized /\ market'.initialized) =>
    \E a \in Users, e \in EndTimes, l \in Liquidities :
      /\ l > 0
      /\ market' = FreshMarket(a, e, l)
      /\ vault' = 2 * l
      /\ wallets' = [wallets EXCEPT ![a] = @ - 2 * l]
      /\ positions' = positions

C10_CreateMarket == [](C10_CreateNow) /\ [][C10_CreateStep]_vars

\* A market just created with liquidity 300: reserves 300/300, vault 600.
C10_Witness ==
  /\ IsOpen
  /\ trades = 0
  /\ market.yes_pool = 300 /\ market.no_pool = 300
  /\ vault = 600
  /\ market.winning_outcome = -1

\* The reserve of outcome o, and the reserve of the other outcome.
PoolOf(m, o) == IF o = 0 THEN m.yes_pool ELSE m.no_pool
OtherPoolOf(m, o) == IF o = 0 THEN m.no_pool ELSE m.yes_pool
SharesOf(p, o) == IF o = 0 THEN p.yes_shares ELSE p.no_shares
TotalOf(m, o) == IF o = 0 THEN m.total_yes_shares ELSE m.total_no_shares

\* C11: a committed buy of outcome o with gross_in g takes fee = floor(g*50/10000),
\* adds net = g - fee to the other reserve, sets o's reserve to
\* floor(x*y / y_new), credits x - x_new shares of o to the buyer's position and
\* to the market total, leaves the other outcome's shares alone and moves the
\* full g from the buyer into the vault.
C11_BuyStep ==
  trades' # trades =>
  \A u \in Users, o \in TradingOutcomes, g \in CollateralAmounts, mn \in MinOuts :
    buy_shares(u, o, g, mn) =>
      LET fee == (g * 50) \div 10000
          net == g - fee
          x == PoolOf(market, o)
          y == OtherPoolOf(market, o)
          y_new == y + net
          x_new == (x * y) \div y_new
          shares_out == x - x_new
      IN  /\ OtherPoolOf(market', o) = y_new
          /\ PoolOf(market', o) = x_new
          /\ SharesOf(positions'[u], o) = SharesOf(positions[u], o) + shares_out
          /\ SharesOf(positions'[u], 1 - o) = SharesOf(positions[u], 1 - o)
          /\ TotalOf(market', o) = TotalOf(market, o) + shares_out
          /\ TotalOf(market', 1 - o) = TotalOf(market, 1 - o)
          /\ vault' = vault + g
          /\ wallets'[u] = wallets[u] - g
          /\ shares_out > 0 /\ shares_out >= mn

C11_BuyEffect == [][C11_BuyStep]_vars

\* buy(YES, 250) on a fresh market of liquidity 300: fee 1, net 249,
\* no_pool 549, yes_pool floor(90000/549) = 163, 137 shares, vault 850.
C11_Witness ==
  /\ IsOpen
  /\ trades = 1
  /\ market.yes_pool = 163 /\ market.no_pool = 549
  /\ market.total_yes_shares = 137
  /\ positions["bob"].yes_shares = 137
  /\ vault = 850
  /\ wallets["bob"] = InitialBalance - 250

BuyNow(u, o, g, mn) ==
  buy_shares_handler(market, positions[u], vault, wallets[u], now, u, o, g, mn)
SellNow(u, o, s, mn) ==
  sell_shares_handler(market, positions[u], vault, wallets[u], now, u, o, s, mn)

\* The accounts a handler result r would commit are the ones user u has now.
LeavesAll(r, u) ==
  /\ r.market = market
  /\ r.position = positions[u]
  /\ r.vault = vault
  /\ r.wallet = wallets[u]

\* C12: on an Open market at or past end_time every buy, and every sell on an
\* existing position, returns MarketExpired and leaves market, position, vault
\* and wallet as they are; the clock never goes back and end_time never
\* changes, so from then on no step commits a trade or changes reserves, share
\* totals or share balances.
C12_ExpiredNow ==
  (IsOpen /\ now >= market.end_time) =>
    \A u \in Users, o \in OutcomeIndexes, mn \in MinOuts :
      /\ \A g \in CollateralAmounts :
           BuyNow(u, o, g, mn).err = "MarketExpired" /\ LeavesAll(BuyNow(u, o, g, mn), u)
      /\ positions[u].initialized =>
           \A s \in ShareAmounts(SharesOf(positions[u], o)) :
             SellNow(u, o, s, mn).err = "MarketExpired" /\ LeavesAll(SellNow(u, o, s, mn), u)

C12_ExpiredStep ==
  /\ now' >= now
  /\ market.initialized => market'.end_time = market.end_time
  /\ (market.initialized /\ now >= market.end_time) =>
       /\ trades' = trades
       /\ market'.yes_pool = market.yes_pool /\ market'.no_pool = market.no_pool
       /\ market'.total_yes_shares = market.total_yes_shares
       /\ market'.total_no_shares = market.total_no_shares
       /\ \A u \in Users : /\ positions'[u].yes_shares = positions[u].yes_shares
                           /\ positions'[u].no_shares = positions[u].no_shares
       /\ vault' <= vault

C12_NoTradeAfterEnd == [](C12_ExpiredNow) /\ [][C12_ExpiredStep]_vars

\* An Open market past its end_time on which both users hold shares.
C12_Witness ==
  /\ IsOpen
  /\ now >= market.end_time
  /\ positions["alice"].yes_shares > 0
  /\ positions["bob"].no_shares > 0
  /\ BuyNow("alice", 0, 250, 0).err = "MarketExpired"
  /\ SellNow("bob", 1, positions["bob"].no_shares, 0).err = "MarketExpired"

ResolveNow(a, w) == resolve_market_handler(market, vault, a, w)

\* C13: on an Open market, resolve_market(w) by the authority for an outcome w
\* with no outstanding shares returns NoWinnings and leaves the market as it
\* is: Open, winning_outcome unset, snapshot zero.
C13_ResolveWithoutWinners ==
  IsOpen =>
    \A w \in TradingOutcomes :
      TotalOf(market, w) = 0 =>
        /\ ResolveNow(market.authority, w).err = "NoWinnings"
        /\ ResolveNow(market.authority, w).market = market
        /\ market.status = Open
        /\ market.winning_outcome = -1
        /\ market.resolved_vault_balance = 0
        /\ market.resolved_total_winning_shares = 0

\* Shares of NO are outstanding and none of YES: resolve(YES) is refused
\* while resolve(NO) would go through.
C13_Witness ==
  /\ IsOpen
  /\ market.total_yes_shares = 0
  /\ market.total_no_shares > 0
  /\ ResolveNow(market.authority, 0).err = "NoWinnings"
  /\ ResolveNow(market.authority, 1).err = "Ok"

\* C14: on an Open, unexpired market a sell by the owner of more shares of an
\* outcome than the position holds returns InsufficientShares and changes
\* nothing; no share balance is ever negative.
C14_OversellRefused ==
  /\ \A u \in Users : positions[u].yes_shares >= 0 /\ positions[u].no_shares >= 0
  /\ (IsOpen /\ now < market.end_time) =>
       \A u \in Users, o \in TradingOutcomes, over \in {1, 50}, mn \in MinOuts :
         positions[u].initialized =>
           LET r == SellNow(u, o, SharesOf(positions[u], o) + over, mn) IN
             r.err = "InsufficientShares" /\ LeavesAll(r, u)

\* A holder of YES shares on an Open, unexpired market who has sold some
\* already: one share more than held is refused, the holding itself is not.
C14_Witness ==
  /\ IsOpen
  /\ now < market.end_time
  /\ trades >= 2
  /\ positions["alice"].yes_shares > 1
  /\ wallets["alice"] + 250 > InitialBalance
  /\ SellNow("alice", 0, positions["alice"].yes_shares + 1, 0).err = "InsufficientShares"
  /\ SellNow("alice", 0, positions["alice"].yes_shares, 0).err = "Ok"

\* C15: on an existing market, resolve_market by any signer other than
\* market.authority returns Unauthorized whatever the status and the outcome
\* asked for, and changes nothing; the authority recorded at creation never
\* changes, and the step that resolves the market is a resolve_market by it.
C15_StrangerNow ==
  market.initialized =>
    \A a \in Users \ {market.authority}, w \in OutcomeIndexes :
      /\ ResolveNow(a, w).err = "Unauthorized"
      /\ ResolveNow(a, w).market = market
      /\ ResolveNow(a, w).vault = vault

C15_AuthorityStep ==
  market.initialized =>
    /\ market'.authority = market.authority
    /\ (market.status = Open /\ market'.status = Resolved) =>
         /\ \E w \in TradingOutcomes : resolve_market(market.authority, w)
         /\ \A a \in Users \ {market.authority}, w \in OutcomeIndexes :
              ~resolve_market(a, w)

C15_OnlyAuthorityResolves == [](C15_StrangerNow) /\ [][C15_AuthorityStep]_vars

\* Bob created the market and resolved it; alice, who holds the winning
\* shares, could not have.
C15_Witness ==
  /\ IsResolved
  /\ market.authority = "bob"
  /\ WinningShares("alice") > 0
  /\ positions["bob"].initialized = FALSE
  /\ ResolveNow("alice", market.winning_outcome).err = "Unauthorized"

Claimants == {u \in Users : positions[u].claimed}

\* C16: once every position that holds winning shares has claimed, what the
\* vault still holds of the snapshot, resolved_vault_balance minus the payouts,
\* is less than the number of positions that claimed.
C16_DustBounded ==
  (IsResolved /\ \A u \in Users : WinningShares(u) > 0 => positions[u].claimed) =>
    /\ vault = market.resolved_vault_balance
                 - SumOver([u \in Users |-> IF u \in Claimants THEN FloorShare(u) ELSE 0], Users)
    /\ vault < Cardinality(Claimants)

\* Two claimants with unequal holdings were paid and one unit of dust is left.
C16_Witness ==
  /\ IsResolved
  /\ Claimants = Users
  /\ WinningShares("alice") # WinningShares("bob")
  /\ vault = 1

\* C17: a committed buy hands out at most the exact constant-product output
\* x - x*y/(y + net) = x*net/(y + net), and a committed sell at most
\* y - x*y/(x + shares_in) = y*shares_in/(x + shares_in), before the fee.
C17_TradeStep ==
  trades' # trades =>
    /\ \A u \in Users, o \in TradingOutcomes, g \in CollateralAmounts, mn \in MinOuts :
         buy_shares(u, o, g, mn) =>
           LET net == g - ((g * 50) \div 10000)
               x == PoolOf(market, o)
               y == OtherPoolOf(market, o)
               shares_out == SharesOf(positions'[u], o) - SharesOf(positions[u], o)
           IN  shares_out * (y + net) <= x * net
    /\ \A u \in Users, o \in TradingOutcomes, mn \in MinOuts :
         \A s \in ShareAmounts(SharesOf(positions[u], o)) :
           sell_shares(u, o, s, mn) =>
             LET x == PoolOf(market, o)
                 y == OtherPoolOf(market, o)
                 gross_out == (IF o = 0 THEN cpmm_sell_yes(market.yes_pool, market.no_pool, s)
                                        ELSE cpmm_sell_no(market.yes_pool, market.no_pool, s)).out
             IN  gross_out * (x + s) <= y * s

C17_RoundingFavoursPool == [][C17_TradeStep]_vars

\* C18: in every reachable state of an Open market, whatever trades came
\* before, a buy that goes through credits the caller at least min_shares_out
\* and a sell that goes through pays at least min_collateral_out; a trade that
\* would go through but yield less returns SlippageExceeded and changes nothing.
C18_SlippageGuard ==
  IsOpen =>
    \A u \in Users, o \in TradingOutcomes, mn \in MinOuts :
      /\ \A g \in CollateralAmounts :
           LET b == BuyNow(u, o, g, mn)
               free == BuyNow(u, o, g, 0)
           IN  /\ b.err = "Ok" =>
                    SharesOf(b.position, o) - SharesOf(positions[u], o) >= mn
               /\ (free.err = "Ok" /\ free.out < mn) =>
                    (b.err = "SlippageExceeded" /\ LeavesAll(b, u))
      /\ \A s \in ShareAmounts(SharesOf(positions[u], o)) :
           LET r == SellNow(u, o, s, mn)
               free == SellNow(u, o, s, 0)
           IN  /\ r.err = "Ok" => r.wallet - wallets[u] >= mn
               /\ (free.err = "Ok" /\ free.out < mn) =>
                    (r.err = "SlippageExceeded" /\ LeavesAll(r, u))

\* Alice and bob bought YES before: bob's next buy of YES with a floor of 150
\* shares is refused, his buy of NO passes it, and selling one share for at
\* least 150 is refused while selling all of them is not.
C18_Witness ==
  /\ IsOpen
  /\ now < market.end_time
  /\ positions["alice"].yes_shares > 0
  /\ positions["bob"].yes_shares > 1
  /\ BuyNow("bob", 0, 250, 150).err = "SlippageExceeded"
  /\ BuyNow("bob", 1, 250, 150).err = "Ok"
  /\ SellNow("bob", 0, 1, 150).err = "SlippageExceeded"
  /\ SellNow("bob", 0, positions["bob"].yes_shares, 150).err = "Ok"

\* C19: a committed sell of s shares of outcome o sets o's reserve to x + s,
\* takes gross_out = y - floor(x*y/(x+s)) from the other reserve and puts
\* fee_kept = floor(gross_out*50/10000) back into it, takes s from the
\* seller's balance and from the market total of o, leaves the other outcome's
\* shares alone and moves net_out = gross_out - fee_kept from the vault to the
\* seller.
C19_SellStep ==
  trades' # trades =>
    \A u \in Users, o \in TradingOutcomes, mn \in MinOuts :
      \A s \in ShareAmounts(SharesOf(positions[u], o)) :
        sell_shares(u, o, s, mn) =>
          LET x == PoolOf(market, o)
              y == OtherPoolOf(market, o)
              y_floor == (x * y) \div (x + s)
              gross_out == y - y_floor
              fee_kept == (gross_out * 50) \div 10000
              net_out == gross_out - fee_kept
          IN  /\ PoolOf(market', o) = x + s
              /\ OtherPoolOf(market', o) = y_floor + fee_kept
              /\ SharesOf(positions'[u], o) = SharesOf(positions[u], o) - s
              /\ SharesOf(positions'[u], 1 - o) = SharesOf(positions[u], 1 - o)
              /\ TotalOf(market', o) = TotalOf(market, o) - s
              /\ TotalOf(market', 1 - o) = TotalOf(market, 1 - o)
              /\ vault' = vault - net_out
              /\ wallets'[u] = wallets[u] + net_out

C19_SellEffect == [][C19_SellStep]_vars

\* After buy(YES, 250) on a fresh market of liquidity 300, selling the 137
\* shares: yes_pool 300, gross_out 549 - 298 = 251, fee_kept 1, no_pool 299,
\* net_out 250 back to the seller, vault 600.
C19_Witness ==
  /\ IsOpen
  /\ trades = 2
  /\ market.yes_pool = 300 /\ market.no_pool = 299
  /\ market.total_yes_shares = 0 /\ market.total_no_shares = 0
  /\ positions["bob"].initialized /\ positions["bob"].yes_shares = 0
  /\ wallets["bob"] = InitialBalance
  /\ vault = 600

\* C20: once the market is Resolved, every buy_shares, and every sell_shares
\* on an existing position, returns InvalidMarketStatus and leaves market,
\* position, vault and wallet as they are, also while the clock is still
\* before end_time; from then on no step creates a position or changes
\* yes_pool, no_pool, total_yes_shares, total_no_shares or any position's
\* yes_shares or no_shares, and the market stays Resolved.
C20_ResolvedNow ==
  IsResolved =>
    \A u \in Users, o \in OutcomeIndexes, mn \in MinOuts :
      /\ \A g \in CollateralAmounts :
           /\ BuyNow(u, o, g, mn).err = "InvalidMarketStatus"
           /\ LeavesAll(BuyNow(u, o, g, mn), u)
      /\ positions[u].initialized =>
           \A s \in ShareAmounts(SharesOf(positions[u], o)) :
             /\ SellNow(u, o, s, mn).err = "InvalidMarketStatus"
             /\ LeavesAll(SellNow(u, o, s, mn), u)

C20_ResolvedStep ==
  IsResolved =>
    /\ market'.initialized /\ market'.status = Resolved
    /\ trades' = trades
    /\ market'.yes_pool = market.yes_pool /\ market'.no_pool = market.no_pool
    /\ market'.total_yes_shares = market.total_yes_shares
    /\ market'.total_no_shares = market.total_no_shares
    /\ \A u \in Users : /\ positions'[u].initialized = positions[u].initialized
                        /\ positions'[u].yes_shares = positions[u].yes_shares
                        /\ positions'[u].no_shares = positions[u].no_shares

C20_ResolvedIsFrozen == [](C20_ResolvedNow) /\ [][C20_ResolvedStep]_vars

\* A market resolved before its end_time, with a shareholder who could
\* otherwise sell, a user without a position, and a claim already paid.
C20_Witness ==
  /\ IsResolved
  /\ now < market.end_time
  /\ trades < MaxTrades
  /\ positions["alice"].yes_shares > 0
  /\ positions["alice"].claimed
  /\ positions["bob"].initialized = FALSE
  /\ wallets["bob"] >= 250
  /\ BuyNow("bob", 0, 250, 0).err = "InvalidMarketStatus"
  /\ SellNow("alice", 0, positions["alice"].yes_shares, 0).err = "InvalidMarketStatus"

\* What the market's books say the vault must hold: both reserves and every
\* outstanding share.
Backing(m) == m.yes_pool + m.no_pool + m.total_yes_shares + m.total_no_shares

\* C21: on an Open market yes_pool + no_pool + total_yes_shares +
\* total_no_shares never exceeds the vault balance; the two are equal at
\* creation, every buy of gross_in g widens the gap by its fee
\* floor(g*50/10000) and no other step changes it; so no sell fails for lack
\* of vault funds, and a sell that goes through pays no more than the vault holds.
C21_BackedNow ==
  IsOpen =>
    /\ Backing(market) <= vault
    /\ \A u \in Users, o \in TradingOutcomes, mn \in MinOuts :
         \A s \in ShareAmounts(SharesOf(positions[u], o)) :
           /\ SellNow(u, o, s, mn).err # "InsufficientFunds"
           /\ SellNow(u, o, s, mn).err = "Ok" => SellNow(u, o, s, mn).out <= vault

\* A buy is the only step that adds to the vault of an Open market, and it
\* adds its gross_in.
C21_FeeStep ==
  /\ (~market.initialized /\ market'.initialized) => Backing(market') = vault'
  /\ (IsOpen /\ market'.status = Open) =>
       vault' - Backing(market') =
         (vault - Backing(market))
           + (IF vault' > vault THEN ((vault' - vault) * FEE_BPS) \div BPS_DENOM ELSE 0)

C21_BackingInvariant == [](C21_BackedNow) /\ [][C21_FeeStep]_vars

\* Two buys of 250 left a fee of 1 each in the vault, a sell has paid out, and
\* a further sell of everything bob holds would go through.
C21_Witness ==
  /\ IsOpen
  /\ now < market.end_time
  /\ trades = 3
  /\ vault - Backing(market) = 2
  /\ vault < 1100
  /\ positions["bob"].yes_shares > 0
  /\ SellNow("bob", 0, positions["bob"].yes_shares, 0).err = "Ok"
  /\ SellNow("bob", 0, positions["bob"].yes_shares, 0).out > 250

\* C22: on every Resolved market the snapshot resolved_vault_balance is at
\* least resolved_total_winning_shares, which is positive; so the payout of a
\* position is at least its number of winning shares, and a claim by an
\* unclaimed position holding winning shares never returns NoWinnings.
C22_SnapshotCoversWinners ==
  IsResolved =>
    /\ market.resolved_total_winning_shares > 0
    /\ market.resolved_vault_balance >= market.resolved_total_winning_shares
    /\ \A u \in Users :
         (positions[u].initialized /\ ~positions[u].claimed /\ WinningShares(u) > 0) =>
           /\ FloorShare(u) >= WinningShares(u)
           /\ ClaimNow(u).err # "NoWinnings"
           /\ ClaimNow(u).err = "Ok" => ClaimNow(u).out >= WinningShares(u)

\* Resolved with two winners, one holding a single share; the larger holder
\* has been paid and the single share is still to be claimed.
C22_Witness ==
  /\ IsResolved
  /\ positions["bob"].claimed
  /\ WinningShares("bob") > 100
  /\ ~positions["alice"].claimed
  /\ WinningShares("alice") = 1
  /\ vault < market.resolved_total_winning_shares
  /\ ClaimNow("alice").err = "Ok"
  /\ ClaimNow("alice").out >= 1

\* An Open market at or past end_time with no outstanding share of outcome w.
Stuck(w) == IsOpen /\ now >= market.end_time /\ TotalOf(market, w) = 0

\* In a stuck state resolve_market(w) is refused for every signer, with
\* NoWinnings for the authority.
C23_StuckNow ==
  \A w \in TradingOutcomes :
    Stuck(w) =>
      /\ \A a \in Users : ResolveNow(a, w).err # "Ok"
      /\ ResolveNow(market.authority, w).err = "NoWinnings"

\* Past end_time the total of an outcome that is zero stays zero and the
\* market is never resolved to that outcome; with both totals zero no step
\* changes the market, a position, the vault or a wallet.
C23_StuckStep ==
  /\ \A w \in TradingOutcomes :
       (market.initialized /\ now >= market.end_time /\ TotalOf(market, w) = 0) =>
         /\ now' >= market'.end_time
         /\ TotalOf(market', w) = 0
         /\ ~(market.status = Open /\ market'.status = Resolved
              /\ market'.winning_outcome = w)
  /\ (Stuck(0) /\ Stuck(1)) => UNCHANGED <<market, positions, vault, wallets>>

C23_StuckForever == [](C23_StuckNow) /\ [][C23_StuckStep]_vars

\* The vault of a market stuck with no shares at all still holds the creation
\* deposit of 2 * initial_liquidity.
C23_VaultKeepsDeposit ==
  (Stuck(0) /\ Stuck(1)) => vault >= backing_of(created_liquidity)

\* C23: from a state where the market is Open, the time is at or past end_time
\* and the total outstanding shares of outcome w is zero, resolve_market(w)
\* never succeeds; a market with total_yes_shares = total_no_shares = 0 past
\* end_time never leaves Open, no operation changes it, and its vault balance,
\* at least 2 * initial_liquidity, is never paid out.
C23_StuckMarket == C23_StuckForever /\ [](C23_VaultKeepsDeposit)

\* A market past end_time from which every share was sold back.
C23_Witness ==
  /\ Stuck(0) /\ Stuck(1)
  /\ trades = 2
  /\ created_liquidity = 300
  /\ positions["bob"].initialized
  /\ vault > 0

====
